---- MODULE Spec2Model ----
(***************************************************************************)
(* State-machine model of templatescript.py: the logging-level registry   *)
(* (addLoggingLevel), the logger factory (create_logger) and the log      *)
(* calls made through it, the yes/no prompt (query_yes_no) and the         *)
(* progress bar (print_progressbar).                                       *)
(*                                                                         *)
(* Python strings are sequences of one-character strings, so that          *)
(* str.lower() and str.upper() are computed character by character.        *)
(* The state of the standard logging module that the script reads and      *)
(* writes (logging._nameToLevel, logging._levelToName, the attributes of   *)
(* the module and of the Logger class, the manager's logger dictionary)    *)
(* is part of the model's state.                                           *)
(***************************************************************************)
EXTENDS Integers, Sequences, FiniteSets, TLC

VARIABLES
    nameToLevel,    \* logging._nameToLevel : name -> rank
    levelToName,    \* logging._levelToName : rank -> name
    moduleAttrs,    \* attributes of the logging module : name -> value
    classAttrs,     \* attributes of logging.getLoggerClass() : name -> value
    loggerDict,     \* logging.Logger.manager.loggerDict : logger name -> object id
    loggers,        \* the Logger objects, by object id : [level, handlers]
    dirs,           \* the directories that exist (os.path.isdir)
    last,           \* the last call made and its outcome
    added,          \* history: the level names addLoggingLevel has installed
    returned,       \* history: per logger name, what create_logger has returned
    q_default,      \* query_yes_no: the `default` argument
    q_pc,           \* query_yes_no: "start", "loop", "returned" or "raised"
    q_lines,        \* query_yes_no: the lines input() has returned so far
    q_prompts,      \* query_yes_no: number of times question + prompt was written
    q_hints,        \* query_yes_no: number of times the usage hint was written
    q_result,       \* query_yes_no: the value returned
    pb_call,        \* print_progressbar: the arguments of the last call
    pb_out          \* print_progressbar: what the last call printed

logVars   == <<nameToLevel, levelToName, moduleAttrs, classAttrs, loggerDict,
               loggers, dirs, last, added, returned>>
queryVars == <<q_default, q_pc, q_lines, q_prompts, q_hints, q_result>>
barVars   == <<pb_call, pb_out>>
vars      == <<logVars, queryVars, barVars>>

----------------------------------------------------------------------------
(* Strings *)

LowerAlphabet == <<"a","b","c","d","e","f","g","h","i","j","k","l","m","n","o","p","q","r","s","t","u","v","w","x","y","z">>
UpperAlphabet == <<"A","B","C","D","E","F","G","H","I","J","K","L","M","N","O","P","Q","R","S","T","U","V","W","X","Y","Z">>

\* one character of str.lower()
char_lower(c) ==
    IF \E i \in DOMAIN UpperAlphabet : UpperAlphabet[i] = c
    THEN LowerAlphabet[CHOOSE i \in DOMAIN UpperAlphabet : UpperAlphabet[i] = c]
    ELSE c

\* one character of str.upper()
char_upper(c) ==
    IF \E i \in DOMAIN LowerAlphabet : LowerAlphabet[i] = c
    THEN UpperAlphabet[CHOOSE i \in DOMAIN LowerAlphabet : LowerAlphabet[i] = c]
    ELSE c

\* str.lower()
str_lower(s) == IF s = <<>> THEN <<>> ELSE [i \in 1..Len(s) |-> char_lower(s[i])]

\* str.upper()
str_upper(s) == IF s = <<>> THEN <<>> ELSE [i \in 1..Len(s) |-> char_upper(s[i])]

s_CRITICAL == <<"C","R","I","T","I","C","A","L">>
s_FATAL == <<"F","A","T","A","L">>
s_ERROR == <<"E","R","R","O","R">>
s_WARNING == <<"W","A","R","N","I","N","G">>
s_WARN == <<"W","A","R","N">>
s_INFO == <<"I","N","F","O">>
s_DEBUG == <<"D","E","B","U","G">>
s_NOTSET == <<"N","O","T","S","E","T">>
s_debug == <<"d","e","b","u","g">>
s_info == <<"i","n","f","o">>
s_warning == <<"w","a","r","n","i","n","g">>
s_warn == <<"w","a","r","n">>
s_error == <<"e","r","r","o","r">>
s_exception == <<"e","x","c","e","p","t","i","o","n">>
s_critical == <<"c","r","i","t","i","c","a","l">>
s_fatal == <<"f","a","t","a","l">>
s_log == <<"l","o","g">>
s_setLevel == <<"s","e","t","L","e","v","e","l">>
s_isEnabledFor == <<"i","s","E","n","a","b","l","e","d","F","o","r">>
s_addHandler == <<"a","d","d","H","a","n","d","l","e","r">>
s_TRACE == <<"T","R","A","C","E">>
s_trace == <<"t","r","a","c","e">>
s_tr == <<"t","r">>
s_low == <<"l","o","w">>
s_LOW == <<"L","O","W">>

s_yes == <<"y","e","s">>
s_y == <<"y">>
s_ye == <<"y","e">>
s_no == <<"n","o">>
s_n == <<"n">>
s_YES == <<"Y","E","S">>
s_Ye == <<"Y","e">>
s_No == <<"N","o">>
s_maybe == <<"m","a","y","b","e">>
s_yess == <<"y","e","s","s">>

\* f with key k bound to v (dict[k] = v, setattr(obj, k, v))
Put(f, k, v) == [x \in (DOMAIN f) \cup {k} |-> IF x = k THEN v ELSE f[x]]

----------------------------------------------------------------------------
(* The logging module as the script finds it *)

\* value of a module attribute that is a level number (logging.INFO)
LevelValue(num) == [kind |-> "level", num |-> num]
\* value of a module attribute that is a function logging at num (logging.info, logToRoot)
FunctionValue(num) == [kind |-> "function", num |-> num]
\* value of a Logger class attribute that logs at num (Logger.info, logForLevel)
MethodValue(num) == [kind |-> "method", num |-> num]
\* any other attribute (Logger.setLevel, logging.log, ...)
OtherValue == [kind |-> "other", num |-> 0]

BuiltinNameToLevel ==
    (s_CRITICAL :> 50) @@ (s_FATAL :> 50) @@ (s_ERROR :> 40) @@ (s_WARN :> 30) @@
    (s_WARNING :> 30) @@ (s_INFO :> 20) @@ (s_DEBUG :> 10) @@ (s_NOTSET :> 0)

BuiltinLevelToName ==
    (50 :> s_CRITICAL) @@ (40 :> s_ERROR) @@ (30 :> s_WARNING) @@ (20 :> s_INFO) @@
    (10 :> s_DEBUG) @@ (0 :> s_NOTSET)

\* the level-logging functions and methods the logging module ships
BuiltinAccessors ==
    (s_debug :> 10) @@ (s_info :> 20) @@ (s_warning :> 30) @@ (s_warn :> 30) @@
    (s_error :> 40) @@ (s_exception :> 40) @@ (s_critical :> 50) @@ (s_fatal :> 50)

BuiltinModuleAttrs ==
    [n \in DOMAIN BuiltinNameToLevel |-> LevelValue(BuiltinNameToLevel[n])] @@
    [n \in DOMAIN BuiltinAccessors |-> FunctionValue(BuiltinAccessors[n])] @@
    (s_log :> OtherValue)

BuiltinClassAttrs ==
    [n \in DOMAIN BuiltinAccessors |-> MethodValue(BuiltinAccessors[n])] @@
    [n \in {s_log, s_setLevel, s_isEnabledFor, s_addHandler} |-> OtherValue]

\* the root logger's level, which a logger whose own level is 0 inherits
RootLevel == BuiltinNameToLevel[s_WARNING]

\* logging.Logger.manager.disable
ManagerDisable == BuiltinNameToLevel[s_NOTSET]

----------------------------------------------------------------------------
(* Errors and the record of the last call *)

NoError == [type |-> "None", name |-> <<>>, text |-> ""]
AttributeError(name, text) == [type |-> "AttributeError", name |-> name, text |-> text]
ValueError(name, text) == [type |-> "ValueError", name |-> name, text |-> text]
OSError(text) == [type |-> "FileNotFoundError", name |-> <<>>, text |-> text]

InModule == " already defined in logging module"
InClass == " already defined in logger class"
NotValid == " is not a valid log level name"
UnknownLevel == "Unknown level: "

NoCall ==
    [op |-> "none", levelName |-> <<>>, levelNum |-> 0, methodName |-> <<>>,
     raisedAt |-> 0, error |-> NoError, logger_name |-> "", log_level |-> <<>>,
     log_dir |-> "", ref |-> 0, file_lines |-> 0, terminal_lines |-> 0]

----------------------------------------------------------------------------
(* addLoggingLevel *)

\* lines 93-94: `if not methodName` holds for None and for ""
defaultMethodName(levelName, methodName) ==
    IF methodName = <<>> THEN str_lower(levelName) ELSE methodName

\* hasattr(logging, name)
hasattr_logging(name) == name \in DOMAIN moduleAttrs

\* hasattr(logging.getLoggerClass(), name)
hasattr_loggerClass(name) == name \in DOMAIN classAttrs

\* lines 96-103 without the check of line 96
raisingCheck_withoutLevelNameCheck(levelName, methodName) ==
    IF hasattr_logging(methodName) THEN 2
    ELSE IF hasattr_loggerClass(methodName) THEN 3
    ELSE 0

\* lines 96-103: which of the three checks raises (0: none)
raisingCheck(levelName, methodName) ==
    IF hasattr_logging(levelName) THEN 1
    ELSE IF hasattr_logging(methodName) THEN 2
    ELSE IF hasattr_loggerClass(methodName) THEN 3
    ELSE 0

\* lines 97, 100, 103 with line 103 carrying the text of line 100
checkError_sameText(check, levelName, methodName) ==
    CASE check = 1 -> AttributeError(levelName, InModule)
      [] check = 2 -> AttributeError(methodName, InModule)
      [] check = 3 -> AttributeError(methodName, InModule)
      [] OTHER -> NoError

\* lines 97, 100, 103: the exception each check raises
checkError(check, levelName, methodName) ==
    CASE check = 1 -> AttributeError(levelName, InModule)
      [] check = 2 -> AttributeError(methodName, InModule)
      [] check = 3 -> AttributeError(methodName, InClass)
      [] OTHER -> NoError

\* logging.addLevelName(levelNum, levelName), line 112
addLevelName_nameToLevel(levelNum, levelName) == Put(nameToLevel, levelName, levelNum)
addLevelName_levelToName(levelNum, levelName) == Put(levelToName, levelNum, levelName)

\* lines 113 and 115, in that order: the later setattr wins when the names coincide
setattr_logging(levelName, levelNum, methodName) ==
    Put(Put(moduleAttrs, levelName, LevelValue(levelNum)), methodName, FunctionValue(levelNum))

\* line 114
setattr_loggerClass(levelNum, methodName) == Put(classAttrs, methodName, MethodValue(levelNum))

addLoggingLevel(levelName, levelNum, methodArg) ==
    LET methodName == defaultMethodName(levelName, methodArg)
        check == raisingCheck(levelName, methodName)
        call == [NoCall EXCEPT !.op = "addLoggingLevel", !.levelName = levelName,
                               !.levelNum = levelNum, !.methodName = methodName,
                               !.raisedAt = check,
                               !.error = checkError(check, levelName, methodName)]
    IN  /\ last' = call
        /\ IF check # 0
           THEN UNCHANGED <<nameToLevel, levelToName, moduleAttrs, classAttrs, added>>
           ELSE /\ nameToLevel' = addLevelName_nameToLevel(levelNum, levelName)
                /\ levelToName' = addLevelName_levelToName(levelNum, levelName)
                /\ moduleAttrs' = setattr_logging(levelName, levelNum, methodName)
                /\ classAttrs' = setattr_loggerClass(levelNum, methodName)
                /\ added' = added \cup {levelName}
        /\ UNCHANGED <<loggerDict, loggers, dirs, returned, queryVars, barVars>>

----------------------------------------------------------------------------
(* create_logger *)

\* line 122: log_level.upper() is looked up among the keys of logging._nameToLevel
isValidLevelName(log_level) == str_upper(log_level) \in DOMAIN nameToLevel

\* logger.setLevel(log_level), line 168: logging._checkLevel looks the string
\* up in logging._nameToLevel as it was passed
checkLevel(log_level) == log_level \in DOMAIN nameToLevel

\* logging.getLogger that makes a new object on every call
isKnownLogger_never(logger_name) == FALSE

\* logging.getLogger(logger_name), line 129: is there an object under that name
isKnownLogger(logger_name) == logger_name \in DOMAIN loggerDict

\* a Logger as logging.getLogger first makes it: level NOTSET, no handlers
NewLogger == [level |-> BuiltinNameToLevel[s_NOTSET], handlers |-> << >>]

\* the object logging.getLogger(logger_name) returns
getLogger(logger_name) ==
    IF isKnownLogger(logger_name) THEN loggerDict[logger_name] ELSE Len(loggers) + 1

\* the Logger objects after logging.getLogger(logger_name)
loggersAfterGet(logger_name) ==
    IF isKnownLogger(logger_name) THEN loggers ELSE Append(loggers, NewLogger)

\* the parent directory of each log directory the script is run with
DirParent == ("log" :> ".") @@ ("missing/log" :> "missing")

\* lines 132-138: does os.mkdir(log_dir) run and fail
mkdirFails(log_dir) ==
    /\ log_dir # "None"
    /\ log_dir \notin dirs
    /\ DirParent[log_dir] \notin dirs

\* lines 132-138: the directories afterwards
dirsAfter(log_dir) ==
    IF log_dir = "None" \/ mkdirFails(log_dir) THEN dirs ELSE dirs \cup {log_dir}

\* lines 140-145: logging.FileHandler(log_file_path); a handler's level is NOTSET
logfile_handler ==
    [kind |-> "FileHandler", level |-> BuiltinNameToLevel[s_NOTSET]]

\* lines 149-166: colorlog.StreamHandler()
terminal_handler ==
    [kind |-> "StreamHandler", level |-> BuiltinNameToLevel[s_NOTSET]]

\* lines 168-172 on the object ref: setLevel, then the two addHandler calls
configured(objs, ref, log_level) ==
    [objs EXCEPT ![ref] =
        [level |-> nameToLevel[log_level],
         handlers |-> Append(Append(@.handlers, logfile_handler), terminal_handler)]]

\* history: the call for logger_name has returned ref with threshold log_level
recordReturn(logger_name, ref, log_level) ==
    Put(returned, logger_name,
        IF logger_name \in DOMAIN returned
        THEN [refs |-> returned[logger_name].refs \cup {ref},
              creates |-> returned[logger_name].creates + 1,
              log_level |-> log_level]
        ELSE [refs |-> {ref}, creates |-> 1, log_level |-> log_level])

\* the level of the object logging.getLogger(logger_name) returns, before line 168
levelBefore(logger_name) ==
    IF isKnownLogger(logger_name) THEN loggers[loggerDict[logger_name]].level
    ELSE NewLogger.level

create_logger(log_dir, logger_name, log_level) ==
    LET ref == getLogger(logger_name)
        call == [NoCall EXCEPT !.op = "create_logger", !.log_dir = log_dir,
                               !.logger_name = logger_name, !.log_level = log_level,
                               !.levelNum = levelBefore(logger_name)]
    IN  /\ UNCHANGED <<nameToLevel, levelToName, moduleAttrs, classAttrs, added,
                       queryVars, barVars>>
        /\ IF ~isValidLevelName(log_level)
           THEN \* line 123
                /\ last' = [call EXCEPT !.error = AttributeError(log_level, NotValid)]
                /\ UNCHANGED <<loggerDict, loggers, dirs, returned>>
           ELSE /\ loggerDict' = Put(loggerDict, logger_name, ref)
                /\ dirs' = dirsAfter(log_dir)
                /\ IF mkdirFails(log_dir)
                   THEN \* line 135 raises
                        /\ last' = [call EXCEPT !.error = OSError("No such file or directory")]
                        /\ loggers' = loggersAfterGet(logger_name)
                        /\ UNCHANGED returned
                   ELSE IF ~checkLevel(log_level)
                   THEN \* line 168 raises
                        /\ last' = [call EXCEPT !.error = ValueError(log_level, UnknownLevel)]
                        /\ loggers' = loggersAfterGet(logger_name)
                        /\ UNCHANGED returned
                   ELSE /\ last' = [call EXCEPT !.ref = ref]
                        /\ loggers' = configured(loggersAfterGet(logger_name), ref, log_level)
                        /\ returned' = recordReturn(logger_name, ref, log_level)

----------------------------------------------------------------------------
(* A log call through an accessor: Logger.info ..., logForLevel *)

\* Logger.getEffectiveLevel: the logger's own level unless it is 0, else its
\* parent's, which is the root logger
getEffectiveLevel(ref) ==
    IF loggers[ref].level # 0 THEN loggers[ref].level ELSE RootLevel

\* Logger.isEnabledFor with > in place of >=
isEnabledFor_strict(ref, levelNum) ==
    IF ManagerDisable >= levelNum THEN FALSE ELSE levelNum > getEffectiveLevel(ref)

\* Logger.isEnabledFor(levelNum), line 106
isEnabledFor(ref, levelNum) ==
    IF ManagerDisable >= levelNum THEN FALSE ELSE levelNum >= getEffectiveLevel(ref)

\* Logger.callHandlers: the handlers of the logger that emit a record at levelNum
emitting(ref, levelNum, kind) ==
    {i \in DOMAIN loggers[ref].handlers :
        /\ loggers[ref].handlers[i].kind = kind
        /\ levelNum >= loggers[ref].handlers[i].level}

\* lines 105-107, and the accessors the Logger class ships, which have the same body
logForLevel(ref, methodName) ==
    LET levelNum == classAttrs[methodName].num
        enabled == isEnabledFor(ref, levelNum)
    IN  /\ last' = [NoCall EXCEPT !.op = "log", !.ref = ref, !.methodName = methodName,
                                  !.levelNum = levelNum,
                                  !.file_lines =
                                      IF enabled
                                      THEN Cardinality(emitting(ref, levelNum, "FileHandler"))
                                      ELSE 0,
                                  !.terminal_lines =
                                      IF enabled
                                      THEN Cardinality(emitting(ref, levelNum, "StreamHandler"))
                                      ELSE 0]
        /\ UNCHANGED <<nameToLevel, levelToName, moduleAttrs, classAttrs, loggerDict,
                       loggers, dirs, added, returned, queryVars, barVars>>

----------------------------------------------------------------------------
(* query_yes_no *)

\* the `default` argument: None, or a string
PyNone == [isNone |-> TRUE, str |-> << >>]
PyStr(s) == [isNone |-> FALSE, str |-> s]

\* line 213
valid ==
    (s_yes :> TRUE) @@ (s_y :> TRUE) @@ (s_ye :> TRUE) @@ (s_no :> FALSE) @@ (s_n :> FALSE)

\* lines 214-221: the call raises ValueError unless default is None, "yes" or "no"
query_yes_no(default) ==
    /\ q_pc = "start"
    /\ q_default' = default
    /\ q_pc' = IF default.isNone \/ default.str = s_yes \/ default.str = s_no
               THEN "loop" ELSE "raised"
    /\ UNCHANGED <<q_lines, q_prompts, q_hints, q_result, logVars, barVars>>

\* line 225 without .lower()
inputChoice_asTyped(line) == line

\* line 225: choice = input().lower()
inputChoice(line) == str_lower(line)

\* lines 224-231: one turn of the loop, in which input() returns `line`
query_loop(line) ==
    LET choice == inputChoice(line)
    IN  /\ q_pc = "loop"
        /\ q_prompts' = q_prompts + 1
        /\ q_lines' = Append(q_lines, line)
        /\ IF ~q_default.isNone /\ choice = << >>
           THEN /\ q_result' = <<valid[q_default.str]>>
                /\ q_pc' = "returned"
                /\ UNCHANGED q_hints
           ELSE IF choice \in DOMAIN valid
           THEN /\ q_result' = <<valid[choice]>>
                /\ q_pc' = "returned"
                /\ UNCHANGED q_hints
           ELSE /\ q_hints' = q_hints + 1
                /\ UNCHANGED <<q_result, q_pc>>
        /\ UNCHANGED <<q_default, logVars, barVars>>

----------------------------------------------------------------------------
(* print_progressbar *)

\* str * n: the empty string when n <= 0
Repeat(c, n) == IF n <= 0 THEN << >> ELSE [i \in 1..n |-> c]

\* line 194 with the division done before the multiplication
filledLength_divisionFirst(iteration, total, length) == length * (iteration \div total)

\* line 194: int(length * iteration // total)
filledLength(iteration, total, length) == (length * iteration) \div total

\* line 195
bar(iteration, total, length, fill) ==
    Repeat(fill, filledLength(iteration, total, length)) \o
    Repeat("-", length - filledLength(iteration, total, length))

\* 10 ** decimals
RECURSIVE Pow10(_)
Pow10(decimals) == IF decimals <= 0 THEN 1 ELSE 10 * Pow10(decimals - 1)

\* line 193: 100 * iteration / total formatted with `decimals` digits, as the
\* integer number of units of the last digit (rounded half to even)
percent(iteration, total, decimals) ==
    LET num == 100 * iteration * Pow10(decimals)
        q == num \div total
        r == num % total
    IN  IF 2 * r > total \/ (2 * r = total /\ q % 2 = 1) THEN q + 1 ELSE q

\* lines 191-192
defaultPrefix(prefix) == IF Len(prefix) < 1 THEN Repeat(" ", 17) ELSE prefix

NoBarCall ==
    [called |-> FALSE, iteration |-> 0, total |-> 0, prefix |-> << >>, decimals |-> 0,
     length |-> 0, fill |-> ""]
NoBarOut ==
    [raised |-> "", prefix |-> << >>, bar |-> << >>, percent |-> 0, newline |-> FALSE]

\* suffix and printEnd are printed as passed
print_progressbar(iteration, total, prefix, decimals, length, fill) ==
    /\ pb_call' = [called |-> TRUE, iteration |-> iteration, total |-> total,
                   prefix |-> prefix, decimals |-> decimals, length |-> length,
                   fill |-> fill]
    /\ pb_out' = IF total = 0
                 THEN \* line 193 divides by float(total)
                      [NoBarOut EXCEPT !.raised = "ZeroDivisionError"]
                 ELSE [raised |-> "",
                       prefix |-> defaultPrefix(prefix),
                       bar |-> bar(iteration, total, length, fill),
                       percent |-> percent(iteration, total, decimals),
                       newline |-> (iteration = total)]
    /\ UNCHANGED <<logVars, queryVars>>

----------------------------------------------------------------------------
(* Initial state and specifications *)

InitLogging ==
    /\ nameToLevel = BuiltinNameToLevel
    /\ levelToName = BuiltinLevelToName
    /\ moduleAttrs = BuiltinModuleAttrs
    /\ classAttrs = BuiltinClassAttrs
    /\ loggerDict = << >>
    /\ loggers = << >>
    /\ dirs = {"."}
    /\ last = NoCall
    /\ added = {}
    /\ returned = << >>

InitQuery ==
    /\ q_default = PyNone
    /\ q_pc = "start"
    /\ q_lines = << >>
    /\ q_prompts = 0
    /\ q_hints = 0
    /\ q_result = << >>

InitBar ==
    /\ pb_call = NoBarCall
    /\ pb_out = NoBarOut

Init == InitLogging /\ InitQuery /\ InitBar

\* the arguments the registry is exercised with
LevelNameArgs == {s_TRACE, s_trace, s_INFO, s_info}
LevelNumArgs == {-5, 0, 5, 10}
MethodNameArgs == {<<>>, s_tr, s_info, s_setLevel}

RegisterLevel ==
    \E levelName \in LevelNameArgs, levelNum \in LevelNumArgs, methodArg \in MethodNameArgs :
        addLoggingLevel(levelName, levelNum, methodArg)

NextRegistry == RegisterLevel

SpecRegistry == Init /\ [][NextRegistry]_vars

\* the bound on the successful create_logger calls of a run
MaxCreates == 2

\* the arguments the logging system is exercised with
LoggerLevels == {<<s_TRACE, 5>>, <<s_LOW, -5>>}
LogMethodArgs == {s_info, s_warning, s_trace, s_low}
LogDirArgs == {"None", "log", "missing/log"}
LoggerNameArgs == {"AppLogger", "Other"}
LogLevelArgs == {s_INFO, s_info, s_NOTSET, s_TRACE, s_LOW}

RECURSIVE SumCreates(_)
SumCreates(names) ==
    IF names = {} THEN 0
    ELSE LET n == CHOOSE x \in names : TRUE
         IN  returned[n].creates + SumCreates(names \ {n})

\* the number of successful create_logger calls so far
Creates == SumCreates(DOMAIN returned)

\* the logger objects create_logger has returned
ReturnedRefs == UNION {returned[n].refs : n \in DOMAIN returned}

AddLevel ==
    \E level \in LoggerLevels : addLoggingLevel(level[1], level[2], << >>)

CreateLogger ==
    /\ Creates < MaxCreates
    /\ \E log_dir \in LogDirArgs, logger_name \in LoggerNameArgs, log_level \in LogLevelArgs :
           create_logger(log_dir, logger_name, log_level)

LogCall ==
    \E ref \in ReturnedRefs :
        \E methodName \in LogMethodArgs \cap DOMAIN classAttrs :
            logForLevel(ref, methodName)

Next == AddLevel \/ CreateLogger \/ LogCall

Spec == Init /\ [][Next]_vars

\* the bound on the lines one query_yes_no call reads
MaxLines == 3

DefaultArgs == {PyNone, PyStr(s_yes), PyStr(s_no), PyStr(s_maybe)}
InputLines == {<< >>, s_y, s_Ye, s_YES, s_n, s_No, s_maybe, s_yess}

Ask == \E default \in DefaultArgs : query_yes_no(default)

Answer == Len(q_lines) < MaxLines /\ \E line \in InputLines : query_loop(line)

NextQuery == Ask \/ Answer

SpecQuery == Init /\ [][NextQuery]_vars

\* the bounds on the arguments of print_progressbar
MaxTotal == 5
MaxLength == 4

PrintBar ==
    \E total \in 0..MaxTotal, length \in 1..MaxLength, decimals \in {0, 1},
       prefix \in {<< >>, <<"p">>}, fill \in {"#", "="} :
        \E iteration \in 0..(total + 1) :
            print_progressbar(iteration, total, prefix, decimals, length, fill)

NextBar == PrintBar

SpecBar == Init /\ [][NextBar]_vars

----------------------------------------------------------------------------
(* Properties of the registry *)

registryVars == <<nameToLevel, levelToName, moduleAttrs, classAttrs>>

\* C1: a call whose level name is in neither view of the registry
\* (logging._nameToLevel, the logging.<name> attribute) and whose accessor name
\* is free on the module and on the logger class succeeds, and afterwards both
\* lookups of the name yield the rank given.
C1_RegisterThenLookup ==
    [][ ( /\ last'.op = "addLoggingLevel"
          /\ last'.levelName \notin DOMAIN nameToLevel
          /\ ~hasattr_logging(last'.levelName)
          /\ ~hasattr_logging(last'.methodName)
          /\ ~hasattr_loggerClass(last'.methodName) )
        => ( /\ last'.error = NoError
             /\ last'.levelName \in DOMAIN nameToLevel'
             /\ nameToLevel'[last'.levelName] = last'.levelNum
             /\ last'.levelName \in DOMAIN moduleAttrs'
             /\ moduleAttrs'[last'.levelName] = LevelValue(last'.levelNum) ) ]_vars

\* The part of C1 that reads logging._nameToLevel alone: under the same
\* precondition the call succeeds and _nameToLevel[name] is the rank given.
NameToLevelLookup ==
    [][ ( /\ last'.op = "addLoggingLevel"
          /\ last'.levelName \notin DOMAIN nameToLevel
          /\ ~hasattr_logging(last'.levelName)
          /\ ~hasattr_logging(last'.methodName)
          /\ ~hasattr_loggerClass(last'.methodName) )
        => ( /\ last'.error = NoError
             /\ last'.levelName \in DOMAIN nameToLevel'
             /\ nameToLevel'[last'.levelName] = last'.levelNum ) ]_vars

\* C2: a call with a level name that an earlier call installed raises the
\* error of the level-name check (line 97) and changes neither table nor the
\* attributes of the module and of the logger class.
C2_DuplicateNameRejected ==
    [][ ( last'.op = "addLoggingLevel" /\ last'.levelName \in added )
        => ( /\ last'.raisedAt = 1
             /\ last'.error = AttributeError(last'.levelName, InModule)
             /\ UNCHANGED registryVars ) ]_vars

\* C2 witness: a call has failed on a level name that an earlier call installed
C2_Witness ==
    /\ last.op = "addLoggingLevel"
    /\ last.levelName \in added
    /\ last.error # NoError

\* no two registered names are equal ignoring case
UniqueIgnoringCase ==
    \A a, b \in DOMAIN nameToLevel : str_lower(a) = str_lower(b) => a = b

\* no name a call has added has the rank of another registered name (the
\* aliases the built-in table ships, FATAL = CRITICAL and WARN = WARNING, are
\* not counted)
UniqueRank ==
    \A a \in added, b \in DOMAIN nameToLevel : nameToLevel[a] = nameToLevel[b] => a = b

\* a step keeps the rank of every registered name
KeepsRanks ==
    \A n \in DOMAIN nameToLevel : n \in DOMAIN nameToLevel' /\ nameToLevel'[n] = nameToLevel[n]

\* a step keeps the name of every registered rank
KeepsNames ==
    \A r \in DOMAIN levelToName : r \in DOMAIN levelToName' /\ levelToName'[r] = levelToName[r]

\* C3, as stated: after any sequence of calls no two registered names are equal
\* ignoring case, no two have the same rank, and the call has changed neither
\* the rank nor the name of a severity registered before it.
C3_OneToOneAppendOnly ==
    [][UniqueIgnoringCase' /\ UniqueRank' /\ KeepsRanks /\ KeepsNames]_vars

\* C3, amended: the name-to-rank table is append-only. Every name in it keeps
\* its rank, and a call adds at most the level name it was given.
C3_AppendOnlyNameTable ==
    [][ /\ KeepsRanks
        /\ DOMAIN nameToLevel' \subseteq (DOMAIN nameToLevel) \cup {last'.levelName} ]_vars

\* C3 witness: a call has installed a level at a rank a built-in level has
C3_Witness ==
    /\ last.op = "addLoggingLevel"
    /\ last.error = NoError
    /\ last.levelNum = BuiltinNameToLevel[s_DEBUG]
    /\ nameToLevel[last.levelName] = nameToLevel[s_DEBUG]

\* the parts of C3 as stated, one by one
C3_UniqueIgnoringCase == UniqueIgnoringCase
C3_UniqueRank == UniqueRank
C3_KeepsNames == [][KeepsNames]_vars

\* which check the caller reads off the exception and the arguments it passed
toldCheck(call) ==
    IF call.error.text = InClass THEN 3
    ELSE IF call.error.name = call.levelName THEN 1
    ELSE 2

C8_WitnessLevelName == last.op = "addLoggingLevel" /\ last.raisedAt = 1
C8_WitnessModuleAccessor == last.op = "addLoggingLevel" /\ last.raisedAt = 2
----------------------------------------------------------------------------
(* Properties of the logger factory and of the log calls *)

\* the name under which create_logger returned the object ref
loggerNameOf(ref) == CHOOSE n \in DOMAIN returned : ref \in returned[n].refs

\* the rank of the minimum level the last create_logger call for ref was given
thresholdGiven(ref) == nameToLevel[returned[loggerNameOf(ref)].log_level]

\* the last call was a log call on a logger that one create_logger call returned
LoggedOnSingleCreate ==
    /\ last.op = "log"
    /\ returned[loggerNameOf(last.ref)].creates = 1

\* a record at rank S against threshold L: nothing below, one line per sink otherwise
OneLinePerSinkFrom(S, L) ==
    /\ S < L => (last.file_lines = 0 /\ last.terminal_lines = 0)
    /\ S >= L => (last.file_lines = 1 /\ last.terminal_lines = 1)

\* C4, as stated: on a logger from a single create_logger call with minimum
\* level L, a log call at a severity S of any rank writes nothing when
\* rank(S) < rank(L) and one line to the file and one to the terminal otherwise.
C4_ThresholdAnyRank ==
    LoggedOnSingleCreate => OneLinePerSinkFrom(last.levelNum, thresholdGiven(last.ref))

\* C4, amended: the same, for severities S of rank >= 1 and minimum levels L
\* whose rank is not 0.
C4_ThresholdPositiveRank ==
    ( /\ LoggedOnSingleCreate
      /\ last.levelNum >= 1
      /\ thresholdGiven(last.ref) # 0 )
    => OneLinePerSinkFrom(last.levelNum, thresholdGiven(last.ref))

\* C4 witness: a custom severity was logged at the threshold of a logger created
\* once with a custom minimum level, and one line went to each sink
C4_Witness ==
    /\ LoggedOnSingleCreate
    /\ last.methodName = s_trace
    /\ returned[loggerNameOf(last.ref)].log_level = s_TRACE
    /\ last.file_lines = 1
    /\ last.terminal_lines = 1

\* C4, the cases the amendment leaves out
C4_RankZeroThreshold ==
    (LoggedOnSingleCreate /\ last.levelNum >= 1 /\ thresholdGiven(last.ref) = 0)
    => OneLinePerSinkFrom(last.levelNum, thresholdGiven(last.ref))
C4_NonPositiveSeverity ==
    (LoggedOnSingleCreate /\ last.levelNum < 1 /\ thresholdGiven(last.ref) # 0)
    => OneLinePerSinkFrom(last.levelNum, thresholdGiven(last.ref))

\* the handlers of the given kind attached to the object ref
handlersOfKind(ref, kind) ==
    {i \in DOMAIN loggers[ref].handlers : loggers[ref].handlers[i].kind = kind}

\* C5: every logger create_logger has returned has exactly one file sink and
\* exactly one terminal sink, however many calls were made.
C5_ExactlyTwoSinks ==
    \A ref \in ReturnedRefs :
        /\ Cardinality(handlersOfKind(ref, "FileHandler")) = 1
        /\ Cardinality(handlersOfKind(ref, "StreamHandler")) = 1

\* C6: the create_logger calls for one logger name have all returned the same
\* object, and its threshold is the minimum level of the latest of them.
C6_SameLoggerLastThreshold ==
    \A n \in DOMAIN returned :
        /\ Cardinality(returned[n].refs) = 1
        /\ \A ref \in returned[n].refs :
               loggers[ref].level = nameToLevel[returned[n].log_level]

\* C6 witness: a second call for a logger name has returned, with a minimum
\* level of another rank than the threshold the logger had
C6_Witness ==
    /\ last.op = "create_logger"
    /\ last.error = NoError
    /\ returned[last.logger_name].creates = 2
    /\ last.levelNum # nameToLevel[last.log_level]

\* the registered names equal to log_level ignoring case
matchingNames(log_level) ==
    {n \in DOMAIN nameToLevel : str_lower(n) = str_lower(log_level)}

\* C7: create_logger succeeds and sets the threshold to the matching severity
\* whenever minimum_level equals a registered name ignoring case, and raises
\* the invalid-level-name error when it matches none (calls that fail on the
\* log directory set aside).
C7_CaseInsensitiveLevel ==
    (last.op = "create_logger" /\ last.error.type # "FileNotFoundError") =>
        IF matchingNames(last.log_level) # {}
        THEN /\ last.error = NoError
             /\ loggers[last.ref].level \in
                    {nameToLevel[n] : n \in matchingNames(last.log_level)}
        ELSE last.error = AttributeError(last.log_level, NotValid)

\* C7, the half that holds: a minimum_level matching no registered name
\* ignoring case raises the invalid-level-name error
UnknownLevelRejected ==
    (last.op = "create_logger" /\ matchingNames(last.log_level) = {}) =>
        last.error = AttributeError(last.log_level, NotValid)

----------------------------------------------------------------------------
(* Properties of query_yes_no *)

\* a line is an answer: it lower-cases to yes, y, ye, no or n, or it is empty
\* and a default was supplied
IsAnswer(line) ==
    \/ str_lower(line) \in {s_yes, s_y, s_ye, s_no, s_n}
    \/ (line = << >> /\ ~q_default.isNone)

\* the value an answer stands for
AnswerValue(line) ==
    IF str_lower(line) \in {s_yes, s_y, s_ye} THEN TRUE
    ELSE IF str_lower(line) \in {s_no, s_n} THEN FALSE
    ELSE q_default.str = s_yes

\* C9: the call returns exactly at the first line that is an answer, with that
\* answer's value; every line before it has got the usage hint and a new
\* prompt, and while only other lines arrive the call is still in its loop.
C9_ReturnsAtFirstAnswer ==
    /\ q_pc = "returned" =>
          /\ Len(q_lines) >= 1
          /\ IsAnswer(q_lines[Len(q_lines)])
          /\ \A i \in 1..(Len(q_lines) - 1) : ~IsAnswer(q_lines[i])
          /\ q_result = <<AnswerValue(q_lines[Len(q_lines)])>>
          /\ q_hints = Len(q_lines) - 1
          /\ q_prompts = Len(q_lines)
    /\ q_pc = "loop" =>
          /\ \A i \in 1..Len(q_lines) : ~IsAnswer(q_lines[i])
          /\ q_result = << >>
          /\ q_hints = Len(q_lines)
          /\ q_prompts = Len(q_lines)

\* C9 witness: "maybe" was answered with the hint, and the upper-case "YES"
\* that followed was returned as true
C9_Witness ==
    /\ q_pc = "returned"
    /\ q_lines = <<s_maybe, s_YES>>
    /\ q_result = <<TRUE>>
    /\ q_hints = 1

----------------------------------------------------------------------------
(* Properties of print_progressbar *)

\* floor(a / b) for b > 0, as the greatest k with k * b <= a
FloorDiv(a, b) == CHOOSE k \in 0..a : k * b <= a /\ (k + 1) * b > a

\* C10: for total > 0, length > 0 and iteration in 0..total the bar is
\* floor(length * iteration / total) fill characters followed by dashes up to
\* `length` characters, none filled at 0 and all filled at total.
C10_BarFill ==
    ( /\ pb_call.called
      /\ pb_call.total > 0
      /\ pb_call.length > 0
      /\ pb_call.iteration \in 0..pb_call.total )
    => LET filled == FloorDiv(pb_call.length * pb_call.iteration, pb_call.total)
       IN  /\ Len(pb_out.bar) = pb_call.length
           /\ \A i \in 1..pb_call.length :
                  pb_out.bar[i] = IF i <= filled THEN pb_call.fill ELSE "-"
           /\ pb_call.iteration = 0 => pb_out.bar[1] = "-"
           /\ pb_call.iteration = pb_call.total => pb_out.bar[pb_call.length] = pb_call.fill

\* C10 witness: a bar partly filled, where the quotient is not whole
C10_Witness ==
    /\ pb_call.called
    /\ pb_call.total = 3
    /\ pb_call.iteration = 2
    /\ pb_call.length = 4
    /\ pb_out.bar = <<pb_call.fill, pb_call.fill, "-", "-">>

====
